---- MODULE Spec2Model ----
(***************************************************************************)
(* Model of the docling Lambda handler (src/lambda_handler.py): event      *)
(* normalisation, the two conversion operations with their temporary-file  *)
(* lifecycle, the archive packager and the routing handler.                *)
(*                                                                         *)
(* Python strings are sequences of chunks (TLA+ strings), so that          *)
(* concatenation, substring replacement, JSON text and path arithmetic     *)
(* are computed and not assumed.  Python values are tagged records.        *)
(***************************************************************************)
EXTENDS Naturals, Integers, Sequences, FiniteSets, TLC

\* ------------------------------------------------------------------ bounds
\* largest number of files the conversion library renders in one export
MaxFiles == 2
\* number of temporary names the file system of the model can hold
MaxTmp == 2

\* ----------------------------------------------------------- Python values
PyNone == [t |-> "NoneType"]
Str(s) == [t |-> "str", s |-> s]
Bool(b) == [t |-> "bool", b |-> b]
PyInt(n) == [t |-> "int", n |-> n]
Bytes(b) == [t |-> "bytes", b |-> b]
List(es) == [t |-> "list", elems |-> es]
\* a dict is the sequence of its <<key, value>> items, in insertion order
Dict(items) == [t |-> "dict", items |-> items]
\* the opaque conversion result of the external library
Result(r) == [t |-> "ConversionResult", r |-> r]

Truthy(v) ==
    CASE v.t = "NoneType" -> FALSE
      [] v.t = "str" -> v.s # <<>>
      [] v.t = "bool" -> v.b
      [] v.t = "int" -> v.n # 0
      [] v.t = "bytes" -> v.b # <<>>
      [] v.t = "list" -> v.elems # <<>>
      [] v.t = "dict" -> v.items # <<>>
      [] OTHER -> TRUE

\* a == b of Python, for the values the handler compares
PyEq(a, b) == a.t = b.t /\ a = b

\* str(v) as used by the f-string of the 404 message
PyStr(v) ==
    CASE v.t = "str" -> v.s
      [] v.t = "NoneType" -> <<"None">>
      [] v.t = "bool" -> IF v.b THEN <<"True">> ELSE <<"False">>
      [] v.t = "int" -> <<ToString(v.n)>>
      [] OTHER -> <<"<", v.t, ">">>

\* ------------------------------------------------- exceptions and outcomes
NoExc == [type |-> "", msg |-> <<>>]
Exc(type, msg) == [type |-> type, msg |-> msg]
\* the outcome of evaluating an expression: a value or a raised exception
Ret(v) == [exc |-> NoExc, val |-> v]
Raise(type, msg) == [exc |-> Exc(type, msg), val |-> PyNone]
Raised(o) == o.exc.type # ""
\* name = x, then the statements F that follow it: x is evaluated once
Bind(x, F(_)) == CHOOSE y \in {F(v) : v \in {x}} : TRUE

NoAttrGet(v) == Raise("AttributeError", <<"'", v.t, "' object has no attribute 'get'">>)

HasKey(d, k) == \E i \in 1..Len(d.items) : d.items[i][1] = k
Lookup(d, k) == d.items[CHOOSE i \in 1..Len(d.items) : d.items[i][1] = k][2]
\* k in v
PyIn(k, v) ==
    CASE v.t = "dict" -> HasKey(v, k)
      [] v.t = "str" -> \E i \in 1..Len(v.s) : v.s[i] = k
      [] OTHER -> FALSE
\* v.get(k, default): only a dict has the method
Get(v, k, default) ==
    IF v.t # "dict" THEN NoAttrGet(v)
    ELSE IF HasKey(v, k) THEN Ret(Lookup(v, k)) ELSE Ret(default)

\* ----------------------------------------------------------------- strings
RECURSIVE Replace(_, _, _)
\* s.replace(old, new): every non-overlapping occurrence, left to right
Replace(s, old, new) ==
    IF Len(s) < Len(old) \/ old = <<>> THEN s
    ELSE IF SubSeq(s, 1, Len(old)) = old
         THEN new \o Replace(SubSeq(s, Len(old) + 1, Len(s)), old, new)
         ELSE <<Head(s)>> \o Replace(Tail(s), old, new)

\* chunks that are a dot followed by an extension
DotChunks == {".pdf", ".png", ".PNG", ".jpg", ".JPG", ".jpeg", ".gif", ".bmp",
              ".md", ".zip", ".txt", ".d", ".com"}
\* chunk.lower() on the extension chunks
Lower(c) == CASE c = ".PNG" -> ".png" [] c = ".JPG" -> ".jpg" [] OTHER -> c

\* Path(p).name: what follows the last separator
PathName(p) ==
    LET seps == {i \in 1..Len(p) : p[i] = "/"}
    IN  IF seps = {} THEN p
        ELSE SubSeq(p, (CHOOSE i \in seps : \A j \in seps : j <= i) + 1, Len(p))
\* Path(p).suffix: the last dot-extension of the name, unless the name is only that
PathSuffix(p) ==
    LET n == PathName(p)
    IN  IF Len(n) >= 2 /\ n[Len(n)] \in DotChunks THEN <<n[Len(n)]>> ELSE <<>>
\* Path(p).stem: the name without its suffix
PathStem(p) ==
    LET n == PathName(p)
    IN  SubSeq(n, 1, Len(n) - Len(PathSuffix(p)))

\* -------------------------------------------------------------------- JSON
RECURSIVE JsonDumps(_), DumpItems(_), DumpElems(_)
\* json.dumps(v): the text of v, one chunk per token
JsonDumps(v) ==
    CASE v.t = "NoneType" -> <<"null">>
      [] v.t = "bool" -> IF v.b THEN <<"true">> ELSE <<"false">>
      [] v.t = "int" -> <<ToString(v.n)>>
      [] v.t = "str" -> <<"\"">> \o v.s \o <<"\"">>
      [] v.t = "dict" -> <<"{">> \o DumpItems(v.items) \o <<"}">>
      [] v.t = "list" -> <<"[">> \o DumpElems(v.elems) \o <<"]">>
      [] OTHER -> <<"<not serializable>">>
DumpItems(items) ==
    IF items = <<>> THEN <<>>
    ELSE <<"\"", items[1][1], "\"", ":">> \o JsonDumps(items[1][2])
         \o (IF Len(items) > 1 THEN <<",">> \o DumpItems(Tail(items)) ELSE <<>>)
DumpElems(es) ==
    IF es = <<>> THEN <<>>
    ELSE JsonDumps(es[1]) \o (IF Len(es) > 1 THEN <<",">> \o DumpElems(Tail(es)) ELSE <<>>)

RECURSIVE JsonSerializable(_)
JsonSerializable(v) ==
    CASE v.t \in {"NoneType", "bool", "int", "str"} -> TRUE
      [] v.t = "dict" -> \A i \in 1..Len(v.items) : JsonSerializable(v.items[i][2])
      [] v.t = "list" -> \A i \in 1..Len(v.elems) : JsonSerializable(v.elems[i])
      [] OTHER -> FALSE

DigitChunks == {"0", "1", "2", "3"}
\* int(c) of a number chunk
ParseNat(c) == CASE c = "0" -> 0 [] c = "1" -> 1 [] c = "2" -> 2 [] OTHER -> 3
ParseFail == [ok |-> FALSE, val |-> PyNone, rest |-> <<>>]
ParseOk(v, rest) == [ok |-> TRUE, val |-> v, rest |-> rest]
\* the item list with key k bound to v (a repeated key keeps its last value)
DictSet(items, k, v) ==
    IF \E i \in 1..Len(items) : items[i][1] = k
    THEN [i \in 1..Len(items) |-> IF items[i][1] = k THEN <<k, v>> ELSE items[i]]
    ELSE Append(items, <<k, v>>)

RECURSIVE ParseValue(_), ParseMembers(_, _), ParseElems(_, _)
\* the JSON decoder on a chunk sequence: one value and the text left after it
ParseValue(s) ==
    IF s = <<>> THEN ParseFail
    ELSE CASE s[1] = "\"" ->
                LET closing == {j \in 2..Len(s) : s[j] = "\""}
                IN  IF closing = {} THEN ParseFail
                    ELSE LET j == CHOOSE c \in closing : \A d \in closing : c <= d
                         IN  ParseOk(Str(SubSeq(s, 2, j - 1)), SubSeq(s, j + 1, Len(s)))
           [] s[1] = "{" ->
                IF Len(s) >= 2 /\ s[2] = "}" THEN ParseOk(Dict(<<>>), SubSeq(s, 3, Len(s)))
                ELSE ParseMembers(Tail(s), <<>>)
           [] s[1] = "[" ->
                IF Len(s) >= 2 /\ s[2] = "]" THEN ParseOk(List(<<>>), SubSeq(s, 3, Len(s)))
                ELSE ParseElems(Tail(s), <<>>)
           [] s[1] = "null" -> ParseOk(PyNone, Tail(s))
           [] s[1] = "true" -> ParseOk(Bool(TRUE), Tail(s))
           [] s[1] = "false" -> ParseOk(Bool(FALSE), Tail(s))
           [] s[1] \in DigitChunks -> ParseOk(PyInt(ParseNat(s[1])), Tail(s))
           [] OTHER -> ParseFail
ParseMembers(s, acc) ==
    LET k == ParseValue(s)
    IN  IF ~k.ok \/ k.val.t # "str" \/ Len(k.val.s) # 1 THEN ParseFail
        ELSE IF k.rest = <<>> \/ k.rest[1] # ":" THEN ParseFail
        ELSE LET v == ParseValue(Tail(k.rest))
                 acc2 == DictSet(acc, k.val.s[1], v.val)
             IN  IF ~v.ok \/ v.rest = <<>> THEN ParseFail
                 ELSE IF v.rest[1] = "}" THEN ParseOk(Dict(acc2), Tail(v.rest))
                 ELSE IF v.rest[1] = "," THEN ParseMembers(Tail(v.rest), acc2)
                 ELSE ParseFail
ParseElems(s, acc) ==
    LET v == ParseValue(s)
    IN  IF ~v.ok \/ v.rest = <<>> THEN ParseFail
        ELSE IF v.rest[1] = "]" THEN ParseOk(List(Append(acc, v.val)), Tail(v.rest))
        ELSE IF v.rest[1] = "," THEN ParseElems(Tail(v.rest), Append(acc, v.val))
        ELSE ParseFail

\* json.loads(s)
JsonLoads(s) ==
    LET r == ParseValue(s)
    IN  IF r.ok /\ r.rest = <<>> THEN Ret(r.val)
        ELSE Raise("JSONDecodeError", <<"Expecting value">>)

\* ------------------------------------------------------------------ base64
\* The base64 text of the bytes b is the chunk B64Tag followed by b; a
\* trailing BadPad chunk is a text whose padding is wrong.
B64Tag == "base64:"
BadPad == "=?"
\* a byte sequence that is not UTF-8
BadByte == "\\xff"
\* chunks with no character of the base64 alphabet
Punctuation == {"{", "}", "[", "]", ":", ",", "\""}

\* base64.b64encode(b).decode("utf-8")
B64Encode(b) == <<B64Tag>> \o b
\* base64.b64decode(s): characters outside the alphabet are discarded, then
\* the padding must be right
B64Decode(v) ==
    IF v.t # "str" THEN Raise("TypeError", <<"argument should be a bytes-like object or ASCII string, not '", v.t, "'">>)
    ELSE LET s == SelectSeq(v.s, LAMBDA c : c \notin Punctuation)
         IN  IF s = <<>> THEN Ret(Bytes(<<>>))
             ELSE IF s[1] = B64Tag /\ s[Len(s)] # BadPad THEN Ret(Bytes(Tail(s)))
             ELSE Raise("Error", <<"Incorrect padding">>)
\* b.decode("utf-8")
Utf8Decode(b) ==
    IF \E i \in 1..Len(b.b) : b.b[i] = BadByte
    THEN Raise("UnicodeDecodeError", <<"'utf-8' codec can't decode byte 0xff">>)
    ELSE Ret(Str(b.b))


\* ------------------------------------------------------------------- state
VARIABLES
    DocumentConverter,  \* TRUE iff the docling import succeeded (the name is not None)
    pc,                 \* "idle" between calls, "returned" after one
    op,                 \* the operation that ran last
    arg,                \* its arguments
    env,                \* what the library and the file system answered during it
    out,                \* its outcome: the value returned or the exception that left it
    disk,               \* the temporary files and directories that exist
    created,            \* those the last operation created
    calls,              \* the functions the last operation called, in order
    caught,             \* the exception the handler's except clause caught, if any
    zip                 \* the entries the last operation wrote to its archive

vars == <<DocumentConverter, pc, op, arg, env, out, disk, created, calls, caught, zip>>

\* the effects of a piece of code, threaded through it
World(d) == [disk |-> d, created |-> {}, calls |-> <<>>, caught |-> NoExc, zip |-> <<>>]
\* an outcome together with the world it leaves
Eff(o, w) == [exc |-> o.exc, val |-> o.val, w |-> w]
Called(w, f) == [w EXCEPT !.calls = Append(@, f)]

\* mkstemp / mkdtemp: a name that does not exist yet
FreshTmp(d) == CHOOSE n \in 1..MaxTmp : n \notin d /\ \A m \in 1..MaxTmp : m \notin d => n <= m
CanAllocate(d) == \E n \in 1..MaxTmp : n \notin d
TmpName(n) == <<"/tmp/tmp", ToString(n)>>

\* ------------------------------------------------------ response formatter
CorsHeaders ==
    << <<"Access-Control-Allow-Origin", Str(<<"*">>)>>,
       <<"Access-Control-Allow-Headers", Str(<<"Content-Type">>)>>,
       <<"Access-Control-Allow-Methods", Str(<<"POST, OPTIONS">>)>> >>

create_response(status_code, body) ==
    IF ~JsonSerializable(body)
    THEN Raise("TypeError", <<"Object of type ", body.t, " is not JSON serializable">>)
    ELSE Ret(Dict(<< <<"statusCode", status_code>>,
                     <<"headers", Dict(<< <<"Content-Type", Str(<<"application/json">>)>> >> \o CorsHeaders)>>,
                     <<"body", Str(JsonDumps(body))>> >>))

create_binary_response(status_code, body, filename) ==
    IF body.t # "bytes"
    THEN Raise("TypeError", <<"a bytes-like object is required, not '", body.t, "'">>)
    ELSE Ret(Dict(<< <<"statusCode", status_code>>,
                     <<"headers", Dict(<< <<"Content-Type", Str(<<"application/zip">>)>>,
                                          <<"Content-Disposition",
                                            Str(<<"attachment; filename=\"">> \o PyStr(filename) \o <<"\"">>)>> >>
                                       \o CorsHeaders)>>,
                     <<"body", Str(B64Encode(body.b))>>,
                     <<"isBase64Encoded", Bool(TRUE)>> >>))

\* -------------------------------------------------------- event normalizer
parse_event(event) ==
    IF PyIn("body", event)
    THEN Bind(Get(event, "body", PyNone).val, LAMBDA body :
           IF body.t = "NoneType" THEN Ret(Dict(<<>>))
           ELSE Bind(IF Truthy(Get(event, "isBase64Encoded", Bool(FALSE)).val)
                     THEN Bind(B64Decode(body), LAMBDA b : IF Raised(b) THEN b ELSE Utf8Decode(b.val))
                     ELSE Ret(body),
                     LAMBDA decoded :
                       IF Raised(decoded) THEN decoded
                       ELSE IF decoded.val.t = "str"
                            THEN Bind(JsonLoads(decoded.val.s), LAMBDA j :
                                   IF j.exc.type = "JSONDecodeError" THEN Ret(Dict(<<>>)) ELSE j)
                            ELSE decoded))
    ELSE Ret(event)

\* -------------------------------------------------------- archive packager
\* the relative paths the conversion library can write below the export
\* directory; a layout is a set of indices of this list
FileUniverse ==
    << <<"a", ".png">>,
       <<"sub", "/", "a", ".png">>,
       <<"sub", "/", "b", ".JPG">>,
       <<"a", ".png", ".d", "/", "c", ".gif">>,
       <<"sub", "/", "notes", ".txt">>,
       <<"doc_artifacts", "/", "image_000000", ".bmp">> >>

\* the files of the universe that are pictures of the document
Pictures == {1, 2, 3, 4, 6}

ImageSuffixes == {".png", ".jpg", ".jpeg", ".gif", ".bmp"}
\* the same test with the .lower() forgotten
IsImage_m(p) == PathSuffix(p) # <<>> /\ PathSuffix(p)[1] \in ImageSuffixes
\* file_path.suffix.lower() in ('.png', '.jpg', '.jpeg', '.gif', '.bmp')
IsImage(p) == PathSuffix(p) # <<>> /\ Lower(PathSuffix(p)[1]) \in ImageSuffixes

RECURSIVE SeqOfSet(_)
\* the indices of a layout in increasing order
SeqOfSet(S) ==
    IF S = {} THEN <<>>
    ELSE LET m == CHOOSE x \in S : \A y \in S : x <= y
         IN  <<m>> \o SeqOfSet(S \ {m})

RECURSIVE Concat(_)
Concat(ss) == IF ss = <<>> THEN <<>> ELSE Head(ss) \o Concat(Tail(ss))

\* save_as_markdown(md_file, image_mode=REFERENCED): the text of the markdown
\* file, with one link per rendered image, each the path of the image file
SavedMarkdown(tmp_path, files) ==
    LET idx == SelectSeq(SeqOfSet(files), LAMBDA i : i \in Pictures)
    IN  <<"# Title", "\n">>
        \o Concat([k \in 1..Len(idx) |->
                     <<"![Image](">> \o tmp_path \o <<"/">> \o FileUniverse[idx[k]] \o <<")", "\n">>])

RECURSIVE FixReferences(_, _)
\* for img_file in image_files: md_content = md_content.replace(str(img_file), img_file.name)
FixReferences(md_content, image_files) ==
    IF image_files = <<>> THEN md_content
    ELSE FixReferences(Replace(md_content, Head(image_files), PathName(Head(image_files))),
                       Tail(image_files))

\* tmp_path.rglob('*') filtered to the image files, in the order of enumeration
CollectImages(tmp_path, order) ==
    SelectSeq([k \in 1..Len(order) |-> tmp_path \o <<"/">> \o FileUniverse[order[k]]], IsImage)

\* the bytes of an archive: its entries one after the other
RECURSIVE ZipBytes(_)
ZipBytes(entries) ==
    IF entries = <<>> THEN <<"PK-end">>
    ELSE <<"PK">> \o Head(entries).name \o <<"=">> \o Head(entries).data \o ZipBytes(Tail(entries))

\* the entries written to the archive: the markdown, then the images
ZipEntries(source_name, md_content, image_files, tmp_path) ==
    <<[name |-> source_name \o <<".md">>, data |-> md_content]>>
    \o [k \in 1..Len(image_files) |->
          [name |-> PathName(image_files[k]),
           data |-> <<"image ">> \o SubSeq(image_files[k], Len(tmp_path) + 2, Len(image_files[k]))]]

create_zip_with_images(result, source_name, order, w) ==
    LET n == FreshTmp(w.disk)
        tmp_path == TmpName(n)
        w1 == Called([w EXCEPT !.disk = @ \cup {n}, !.created = @ \cup {n}], "TemporaryDirectory")
    IN  IF result.t # "ConversionResult"
        \* leaving the with block removes the directory, also on an exception
        THEN Eff(Raise("AttributeError", <<"'", result.t, "' object has no attribute 'document'">>),
                 [w1 EXCEPT !.disk = @ \ {n}])
        \* ImageRefMode is None when the import failed
        ELSE IF ~DocumentConverter
        THEN Eff(Raise("AttributeError", <<"'NoneType' object has no attribute 'REFERENCED'">>),
                 [w1 EXCEPT !.disk = @ \ {n}])
        ELSE IF result.r.save = "raise"
        THEN Eff(Raise("OSError", <<"save_as_markdown failed">>),
                 [Called(w1, "save_as_markdown") EXCEPT !.disk = @ \ {n}])
        ELSE Bind(CollectImages(tmp_path, order), LAMBDA image_files :
             Bind(FixReferences(SavedMarkdown(tmp_path, result.r.files), image_files), LAMBDA md_content :
             Bind(ZipEntries(source_name, md_content, image_files, tmp_path), LAMBDA entries :
               Eff(Ret([t |-> "tuple", zip_bytes |-> Bytes(ZipBytes(entries)),
                        image_count |-> Len(image_files)]),
                   [Called(w1, "save_as_markdown") EXCEPT !.zip = entries, !.disk = @ \ {n}]))))

\* ------------------------------------------------------ conversion invoker
DefaultFilename == Str(<<"document", ".pdf">>)
MissingSourceError == Str(<<"Either 'source_url' or 'document' (base64) must be provided">>)
LibraryError == Str(<<"Docling library not available">>)

\* the test with the second `not` dropped
no_source_m(source_url, document_b64) == ~Truthy(source_url) /\ Truthy(document_b64)
\* not source_url and not document_b64
no_source(source_url, document_b64) == ~Truthy(source_url) /\ ~Truthy(document_b64)

\* converter.convert(source): the external library; e says what it answers
converter_convert(source, e, w) ==
    IF e.convert = "raise"
    THEN Eff(Raise("ConversionError", <<"conversion failed">>), Called(w, "converter.convert"))
    ELSE Eff(Ret(Result([files |-> e.files, save |-> e.save, num_pages |-> e.num_pages,
                         markdown |-> <<"# Title">>])),
             Called(w, "converter.convert"))

\* the inline branch of both operations: decode, write a temporary file,
\* convert from it, unlink it in the finally clause
convert_from_base64(document_b64, filename, e, w) ==
    Bind(B64Decode(document_b64), LAMBDA document_bytes :
      IF Raised(document_bytes) THEN Eff(document_bytes, w)
      ELSE IF filename.t # "str"
      THEN Eff(Raise("TypeError", <<"expected str, bytes or os.PathLike object, not ", filename.t>>), w)
      ELSE LET n == FreshTmp(w.disk)
               tmp_path == TmpName(n) \o PathSuffix(filename.s)
               w1 == Called([w EXCEPT !.disk = @ \cup {n}, !.created = @ \cup {n}], "NamedTemporaryFile")
           IN  IF e.write = "raise"
               \* the with block closes the file; delete=False leaves it on disk
               THEN Eff(Raise("OSError", <<"[Errno 28] No space left on device">>), w1)
               \* try: convert; finally: unlink
               ELSE Bind(converter_convert(Str(tmp_path), e, w1), LAMBDA r :
                      Eff(r, [r.w EXCEPT !.disk = @ \ {n}])))

convert_document(args, e, w) ==
    IF ~DocumentConverter
    THEN Eff(Ret(Dict(<< <<"status_code", PyInt(500)>>,
                         <<"body", Dict(<< <<"success", Bool(FALSE)>>, <<"error", LibraryError>> >>)>> >>)), w)
    ELSE IF args.t # "dict" THEN Eff(NoAttrGet(args), w)
    ELSE LET source_url == Get(args, "source_url", PyNone).val
             document_b64 == Get(args, "document", PyNone).val
             filename == Get(args, "filename", DefaultFilename).val
         IN  IF no_source(source_url, document_b64)
             THEN Eff(Ret(Dict(<< <<"status_code", PyInt(400)>>,
                                  <<"body", Dict(<< <<"success", Bool(FALSE)>>,
                                                    <<"error", MissingSourceError>> >>)>> >>)), w)
             ELSE Bind(IF Truthy(source_url)
                       THEN converter_convert(source_url, e, Called(w, "DocumentConverter"))
                       ELSE convert_from_base64(document_b64, filename, e, Called(w, "DocumentConverter")),
                       LAMBDA r :
                         IF Raised(r) THEN r
                         ELSE Eff(Ret(Dict(<< <<"status_code", PyInt(200)>>,
                                             <<"body", Dict(<< <<"success", Bool(TRUE)>>,
                                                               <<"markdown", Str(r.val.r.markdown)>>,
                                                               <<"metadata",
                                                                 Dict(<< <<"num_pages", r.val.r.num_pages>>,
                                                                         <<"source", IF Truthy(source_url) THEN source_url
                                                                                     ELSE filename>> >>)>> >>)>> >>)),
                                  r.w))

export_document(args, e, w) ==
    IF ~DocumentConverter
    THEN Eff(Ret(Dict(<< <<"status_code", PyInt(500)>>, <<"error", LibraryError>> >>)), w)
    ELSE IF args.t # "dict" THEN Eff(NoAttrGet(args), w)
    ELSE LET source_url == Get(args, "source_url", PyNone).val
             document_b64 == Get(args, "document", PyNone).val
             filename == Get(args, "filename", DefaultFilename).val
             base_name == IF Truthy(source_url)
                          THEN (IF PathStem(source_url.s) # <<>> THEN PathStem(source_url.s) ELSE <<"document">>)
                          ELSE PathStem(filename.s)
         IN  IF no_source(source_url, document_b64)
             THEN Eff(Ret(Dict(<< <<"status_code", PyInt(400)>>, <<"error", MissingSourceError>> >>)), w)
             ELSE Bind(IF Truthy(source_url)
                       THEN Bind(converter_convert(source_url, e, Called(w, "DocumentConverter")), LAMBDA c :
                              IF ~Raised(c) /\ source_url.t # "str"
                              THEN Eff(Raise("TypeError", <<"expected str, bytes or os.PathLike object, not ",
                                                            source_url.t>>), c.w)
                              ELSE c)
                       ELSE convert_from_base64(document_b64, filename, e, Called(w, "DocumentConverter")),
                       LAMBDA r :
                         IF Raised(r) THEN r
                         ELSE Bind(create_zip_with_images(r.val, base_name, e.order,
                                                          Called(r.w, "create_zip_with_images")),
                                   LAMBDA z :
                                     IF Raised(z) THEN z
                                     ELSE Eff(Ret(Dict(<< <<"status_code", PyInt(200)>>,
                                                         <<"zip_bytes", z.val.zip_bytes>>,
                                                         <<"filename", Str(base_name \o <<".zip">>)>> >>)),
                                              z.w)))

\* ------------------------------------------------------------------ router
\* the method read from httpMethod only
http_method_m(event) == Get(event, "httpMethod", PyNone)
\* event.get("httpMethod") or event.get("requestContext", {}).get("http", {}).get("method")
http_method(event) ==
    LET m == Get(event, "httpMethod", PyNone)
    IN  IF Truthy(m.val) THEN m
        ELSE LET http == Get(Get(event, "requestContext", Dict(<<>>)).val, "http", Dict(<<>>))
             IN  IF Raised(http) THEN http ELSE Get(http.val, "method", PyNone)

\* event.get("path") or event.get("rawPath", "")
path(event) ==
    LET p == Get(event, "path", PyNone)
    IN  IF Truthy(p.val) THEN p.val ELSE Get(event, "rawPath", Str(<<>>)).val

\* path == "/full" and http_method == "POST"
is_export_route(pth, method) == PyEq(pth, Str(<<"/", "full">>)) /\ PyEq(method, Str(<<"POST">>))
\* the standard route taking a POST to any path
is_standard_route_m(pth, method) == PyEq(method, Str(<<"POST">>))
\* path in ("", "/") and http_method == "POST"
is_standard_route(pth, method) ==
    (PyEq(pth, Str(<<>>)) \/ PyEq(pth, Str(<<"/">>))) /\ PyEq(method, Str(<<"POST">>))

\* the except clause without the type name of the exception
error_response_m(e) ==
    create_response(PyInt(500), Dict(<< <<"success", Bool(FALSE)>>, <<"error", Str(e.msg)>> >>))
\* the except clause: the response for a caught exception
error_response(e) ==
    create_response(PyInt(500), Dict(<< <<"success", Bool(FALSE)>>,
                                        <<"error", Str(e.msg)>>,
                                        <<"error_type", Str(<<e.type>>)>> >>))

\* the body of the try block
guarded(event, method, pth, e, w) ==
    Bind(parse_event(event), LAMBDA args :
      IF Raised(args) THEN Eff(args, Called(w, "parse_event"))
      ELSE IF is_export_route(pth, method)
      THEN Bind(export_document(args.val, e, Called(Called(w, "parse_event"), "export_document")),
                LAMBDA result :
                  IF Raised(result) THEN result
                  ELSE IF PyIn("error", result.val)
                  THEN Eff(create_response(Lookup(result.val, "status_code"),
                                           Dict(<< <<"success", Bool(FALSE)>>,
                                                   <<"error", Lookup(result.val, "error")>> >>)),
                           result.w)
                  ELSE Eff(create_binary_response(Lookup(result.val, "status_code"),
                                                  Lookup(result.val, "zip_bytes"),
                                                  Lookup(result.val, "filename")),
                           result.w))
      ELSE IF is_standard_route(pth, method)
      THEN Bind(convert_document(args.val, e, Called(Called(w, "parse_event"), "convert_document")),
                LAMBDA result :
                  IF Raised(result) THEN result
                  ELSE Eff(create_response(Lookup(result.val, "status_code"), Lookup(result.val, "body")),
                           result.w))
      ELSE Eff(create_response(PyInt(404),
                               Dict(<< <<"success", Bool(FALSE)>>,
                                       <<"error", Str(<<"Unknown endpoint: ">> \o PyStr(method)
                                                      \o <<" ">> \o PyStr(pth))>> >>)),
               Called(w, "parse_event")))

handler(event, e, w) ==
    Bind(http_method(event), LAMBDA m :
      \* raised outside the try block
      IF Raised(m) THEN Eff(m, w)
      ELSE IF PyEq(m.val, Str(<<"OPTIONS">>))
      THEN Eff(create_response(PyInt(200), Dict(<< <<"message", Str(<<"OK">>)>> >>)), w)
      ELSE IF PyEq(path(event), Str(<<"/">>)) /\ PyEq(m.val, Str(<<"GET">>))
      THEN Eff(create_response(PyInt(200), Dict(<< <<"status", Str(<<"healthy">>)>>,
                                                  <<"service", Str(<<"docling-converter">>)>> >>)), w)
      ELSE Bind(guarded(event, m.val, path(event), e, w), LAMBDA r :
             IF Raised(r) THEN Eff(error_response(r.exc), [r.w EXCEPT !.caught = r.exc])
             ELSE r))

\* ------------------------------------------------------------------ inputs
\* a key that the mapping does not have
Missing == [t |-> "missing"]
\* the dict of the items whose value is given
MkDict(items) == Dict(SelectSeq(items, LAMBDA kv : kv[2].t # "missing"))

Url == <<"https:", "/", "/", "example", ".com", "/", "a", ".pdf">>
GoodDocument == Str(<<B64Tag, "%PDF-1.4">>)
BadDocument == Str(<<B64Tag, "%PDF-1.4", BadPad>>)

SourceVals == {Missing, Str(Url), Str(<<>>)}
DocumentVals == {Missing, PyNone, GoodDocument, BadDocument}
FilenameVals == {Missing, Str(<<"x", ".pdf">>)}

\* the arguments of a conversion
MkArgs(su, doc, fn) == MkDict(<< <<"source_url", su>>, <<"document", doc>>, <<"filename", fn>> >>)
ArgsSet == {MkArgs(su, doc, fn) : su \in SourceVals, doc \in DocumentVals, fn \in FilenameVals}
           \cup {List(<<PyInt(1)>>)}

UrlArgs == MkArgs(Str(Url), Missing, Missing)
InlineArgs == MkArgs(Missing, GoodDocument, Str(<<"x", ".pdf">>))

BodyVals ==
    { Missing, PyNone,
      Str(JsonDumps(UrlArgs)), Str(JsonDumps(InlineArgs)), Str(JsonDumps(Dict(<<>>))),
      Str(<<"{">>), Str(<<"not json">>), Str(<<>>),
      Str(JsonDumps(List(<<PyInt(1), PyInt(2)>>))), Str(JsonDumps(Str(<<"hello">>))),
      Str(B64Encode(JsonDumps(UrlArgs))), Str(B64Encode(<<"not json">>)),
      Str(<<B64Tag, BadByte>>), Str(<<B64Tag, "e30", BadPad>>),
      UrlArgs, List(<<PyInt(1)>>) }

MethodVals == {Missing, Str(<<"OPTIONS">>), Str(<<"GET">>), Str(<<"POST">>), Str(<<"PUT">>)}
HttpContext(m) == Dict(<< <<"http", Dict(<< <<"method", Str(<<m>>)>> >>)>> >>)
ContextVals == {Missing, PyNone, Dict(<<>>), Dict(<< <<"http", PyNone>> >>),
                HttpContext("OPTIONS"), HttpContext("POST")}
PathVals == {Missing, Str(<<>>), Str(<<"/">>), Str(<<"/", "full">>), Str(<<"/", "unknown">>)}
RawPathVals == {Missing, Str(<<"/", "full">>)}
FlagVals == {Missing, Bool(TRUE)}

MkEvent(m, rc, p, rp, b, f, su) ==
    MkDict(<< <<"httpMethod", m>>, <<"requestContext", rc>>, <<"path", p>>, <<"rawPath", rp>>,
              <<"body", b>>, <<"isBase64Encoded", f>>, <<"source_url", su>> >>)

\* every routing shape, with a body
RoutingEvents ==
    {MkEvent(m, rc, p, rp, Str(JsonDumps(UrlArgs)), Missing, Missing) :
        m \in MethodVals, rc \in ContextVals, p \in PathVals, rp \in RawPathVals}
\* direct invocations: the event is the payload
DirectEvents ==
    {MkEvent(m, Missing, p, Missing, Missing, Missing, su) :
        m \in {Missing, Str(<<"POST">>)}, p \in {Missing, Str(<<"/", "full">>)}, su \in {Missing, Str(Url)}}
\* every body shape on the routes that read it and on two that do not
BodyEvents ==
    {MkEvent(m, Missing, p, Missing, b, f, Missing) :
        m \in {Str(<<"OPTIONS">>), Str(<<"POST">>), Str(<<"PUT">>)},
        p \in {Str(<<"/">>), Str(<<"/", "full">>)},
        b \in BodyVals, f \in FlagVals}
Events == RoutingEvents \cup DirectEvents \cup BodyEvents

IsTopLevel(p) == \A i \in 1..Len(p) : p[i] # "/"
\* the orders in which rglob can enumerate the files: the entries of a
\* directory in any order, before the entries of its subdirectories
RglobOrders(F) ==
    {o \in [1..Cardinality(F) -> F] :
        /\ \A i, j \in 1..Cardinality(F) : i # j => o[i] # o[j]
        /\ \A i, j \in 1..Cardinality(F) :
              i < j => ~(IsTopLevel(FileUniverse[o[j]]) /\ ~IsTopLevel(FileUniverse[o[i]]))}
Layouts ==
    UNION {{[files |-> F, order |-> o] : o \in RglobOrders(F)} :
              F \in {G \in SUBSET (1..Len(FileUniverse)) : Cardinality(G) <= MaxFiles}}
\* the layouts tried through the handler
HandlerLayouts == {l \in Layouts : l.files \in {{}, {6}, {1, 4}}}

Outcomes == {"ok", "raise"}
MkEnv(wr, cv, sv, lay, np) ==
    [write |-> wr, convert |-> cv, save |-> sv, files |-> lay.files, order |-> lay.order, num_pages |-> np]
NoEnv == MkEnv("ok", "ok", "ok", [files |-> {}, order |-> <<>>], PyNone)
ConvertEnvs == {MkEnv(wr, cv, "ok", [files |-> {}, order |-> <<>>], np) :
                   wr \in Outcomes, cv \in Outcomes, np \in {PyNone, PyInt(1)}}
ExportEnvs == {MkEnv(wr, cv, sv, lay, PyNone) :
                  wr \in Outcomes, cv \in Outcomes, sv \in Outcomes, lay \in HandlerLayouts}
HandlerEnvs == {MkEnv(wr, cv, sv, lay, PyInt(1)) :
                   wr \in Outcomes, cv \in Outcomes, sv \in Outcomes, lay \in HandlerLayouts}
QuietEnv == MkEnv("ok", "ok", "ok", [files |-> {}, order |-> <<>>], PyInt(1))
ZipEnvs == {MkEnv("ok", "ok", sv, lay, PyNone) : sv \in Outcomes, lay \in Layouts}
SourceNames == {<<"doc">>, <<"a", ".png">>}

\* ----------------------------------------------------------------- actions
Init ==
    /\ DocumentConverter \in BOOLEAN
    /\ pc = "idle"
    /\ op = "none"
    /\ arg = <<>>
    /\ env = NoEnv
    /\ out = Ret(PyNone)
    /\ disk = {}
    /\ created = {}
    /\ calls = <<>>
    /\ caught = NoExc
    /\ zip = <<>>

\* what a finished call leaves in the state
Finish(name, a, e, r) ==
    /\ pc' = "returned"
    /\ op' = name
    /\ arg' = a
    /\ env' = e
    /\ out' = [exc |-> r.exc, val |-> r.val]
    /\ disk' = r.w.disk
    /\ created' = r.w.created
    /\ calls' = r.w.calls
    /\ caught' = r.w.caught
    /\ zip' = r.w.zip
    /\ UNCHANGED DocumentConverter

Fresh == World(disk)

\* an invocation that never reaches the library is tried with one
\* environment only: what the library would have answered does not matter
HandlerCall ==
    /\ pc = "idle"
    /\ CanAllocate(disk)
    /\ \E event \in Events, e \in HandlerEnvs :
          \E r \in {handler(event, e, Fresh)} :
              /\ e = QuietEnv \/ \E i \in 1..Len(r.w.calls) : r.w.calls[i] = "DocumentConverter"
              /\ Finish("handler", <<event>>, e, r)

ParseEventCall ==
    /\ pc = "idle"
    /\ \E event \in Events :
          \E r \in {Eff(parse_event(event), Fresh)} :
              Finish("parse_event", <<event>>, NoEnv, r)

ConvertDocumentCall ==
    /\ pc = "idle"
    /\ CanAllocate(disk)
    /\ \E args \in ArgsSet, e \in ConvertEnvs :
          \E r \in {convert_document(args, e, Fresh)} :
              Finish("convert_document", <<args>>, e, r)

ExportDocumentCall ==
    /\ pc = "idle"
    /\ CanAllocate(disk)
    /\ \E args \in ArgsSet, e \in ExportEnvs :
          \E r \in {export_document(args, e, Fresh)} :
              Finish("export_document", <<args>>, e, r)

CreateZipCall ==
    /\ pc = "idle"
    /\ CanAllocate(disk)
    /\ \E e \in ZipEnvs, source_name \in SourceNames :
          \E result \in {converter_convert(Str(Url), e, Fresh).val} :
              \E r \in {create_zip_with_images(result, source_name, e.order, Fresh)} :
                  Finish("create_zip_with_images", <<result, Str(source_name)>>, e, r)

\* the caller takes the outcome; the process waits for the next call
NextInvocation ==
    /\ pc = "returned"
    /\ pc' = "idle"
    /\ op' = "none"
    /\ arg' = <<>>
    /\ env' = NoEnv
    /\ out' = Ret(PyNone)
    /\ created' = {}
    /\ calls' = <<>>
    /\ caught' = NoExc
    /\ zip' = <<>>
    /\ UNCHANGED <<DocumentConverter, disk>>

Next ==
    \/ HandlerCall
    \/ ParseEventCall
    \/ ConvertDocumentCall
    \/ ExportDocumentCall
    \/ CreateZipCall
    \/ NextInvocation

Spec == Init /\ [][Next]_vars

\* ------------------------------------------------------------------ claims
Returned(name) == pc = "returned" /\ op = name
InCalls(f) == \E i \in 1..Len(calls) : calls[i] = f
TheEvent == arg[1]
TheArgs == arg[1]
Field(v, k) == IF v.t = "dict" /\ HasKey(v, k) THEN Lookup(v, k) ELSE Missing
IsStr(v, s) == v.t = "str" /\ v.s = s
Contains(s, sub) == \E i \in 1..(Len(s) - Len(sub) + 1) : SubSeq(s, i, i + Len(sub) - 1) = sub

WellFormedResponse(v) ==
    /\ v.t = "dict"
    /\ Field(v, "statusCode").t = "int"
    /\ Field(v, "headers").t = "dict"
    /\ Field(v, "body").t = "str"
\* the handler returned a response with this status
Responded(status) == out.exc = NoExc /\ WellFormedResponse(out.val) /\ Field(out.val, "statusCode").n = status
\* the JSON body of the response, decoded
ResponseJson == JsonLoads(Field(out.val, "body").s).val
HasCorsHeaders(v) ==
    /\ IsStr(Field(Field(v, "headers"), "Access-Control-Allow-Origin"), <<"*">>)
    /\ IsStr(Field(Field(v, "headers"), "Access-Control-Allow-Headers"), <<"Content-Type">>)
    /\ IsStr(Field(Field(v, "headers"), "Access-Control-Allow-Methods"), <<"POST, OPTIONS">>)

\* C1: every invocation of handler ends with a well-formed response envelope
\* (statusCode, headers, string body); no exception leaves handler.
C1_AlwaysResponds ==
    Returned("handler") => (out.exc = NoExc /\ WellFormedResponse(out.val))

DirectInvocation(ev) ==
    /\ \A k \in {"body", "httpMethod", "requestContext", "path", "rawPath"} : ~HasKey(ev, k)
    /\ HasKey(ev, "source_url") /\ Truthy(Lookup(ev, "source_url"))
\* C2: a direct invocation (no body, method or path keys) that carries a
\* source_url runs convert_document on the event and, when the conversion
\* succeeds, returns status 200.
C2_DirectInvocationConverts ==
    (Returned("handler") /\ DirectInvocation(TheEvent) /\ DocumentConverter /\ env.convert = "ok")
        => (InCalls("convert_document") /\ Responded(200))

\* C3: no temporary file or directory created by convert_document,
\* export_document or create_zip_with_images exists when the operation
\* returns or raises.
C3_NoTemporaryOutlives ==
    (pc = "returned" /\ op \in {"convert_document", "export_document", "create_zip_with_images"})
        => created \cap disk = {}

NeitherSource(a) == a.t = "dict" /\ ~HasKey(a, "source_url") /\ ~HasKey(a, "document")
MissingSourceResult ==
    /\ out.exc = NoExc
    /\ Field(out.val, "status_code") = PyInt(400)
    /\ MissingSourceError \in {Field(out.val, "error"), Field(Field(out.val, "body"), "error")}
    /\ created = {}
    /\ ~InCalls("NamedTemporaryFile")
    /\ ~InCalls("converter.convert")
\* C4 as stated: with neither document nor source_url, convert_document and
\* export_document return status 400 with the missing-source error, create
\* no temporary file and do not call the conversion library.
C4_Original ==
    (op \in {"convert_document", "export_document"} /\ pc = "returned" /\ NeitherSource(TheArgs))
        => MissingSourceResult
\* C4 amended: the same, provided the conversion library is available
\* (with the library unavailable both return status 500 before they look
\* at the arguments).
C4_MissingSource ==
    (op \in {"convert_document", "export_document"} /\ pc = "returned" /\ NeitherSource(TheArgs))
        => IF DocumentConverter THEN MissingSourceResult
           ELSE out.exc = NoExc /\ Field(out.val, "status_code") = PyInt(500) /\ created = {} /\ calls = <<>>
C4_Witness ==
    /\ Returned("export_document") /\ NeitherSource(TheArgs) /\ HasKey(TheArgs, "filename")
    /\ DocumentConverter /\ MissingSourceResult

\* C5: an exception raised inside the guarded region of handler (event
\* normalisation, convert_document, export_document, create_zip_with_images,
\* formatting of the result) is caught at the one boundary and becomes a
\* status 500 JSON response carrying its message and its type name; nothing
\* is retried.
C5_ExceptionsBecome500 ==
    Returned("handler") =>
        /\ caught # NoExc =>
              /\ Responded(500)
              /\ Field(ResponseJson, "success") = Bool(FALSE)
              /\ Field(ResponseJson, "error") = Str(caught.msg)
              /\ Field(ResponseJson, "error_type") = Str(<<caught.type>>)
        /\ (InCalls("parse_event") /\ Raised(parse_event(TheEvent))) => caught = parse_event(TheEvent).exc
        /\ (InCalls("converter.convert") /\ env.convert = "raise") => caught.type = "ConversionError"
        /\ (InCalls("NamedTemporaryFile") /\ env.write = "raise") => caught.type = "OSError"
        /\ (InCalls("save_as_markdown") /\ env.save = "raise") => caught.type = "OSError"
        /\ (Responded(500) /\ DocumentConverter) => caught # NoExc
        /\ \A i, j \in 1..Len(calls) : calls[i] = calls[j] => i = j
C5_Witness ==
    /\ Returned("handler") /\ caught.type = "ConversionError" /\ InCalls("export_document")
    /\ Responded(500) /\ Field(ResponseJson, "error_type") = Str(<<"ConversionError">>)

NotARoute(m, p) ==
    /\ ~IsStr(m, <<"OPTIONS">>)
    /\ ~(IsStr(m, <<"GET">>) /\ IsStr(p, <<"/">>))
    /\ ~(IsStr(m, <<"POST">>) /\ (IsStr(p, <<"/", "full">>) \/ IsStr(p, <<>>) \/ IsStr(p, <<"/">>)))
UnknownEndpoint(m, p) ==
    /\ Responded(404)
    /\ Field(ResponseJson, "error") = Str(<<"Unknown endpoint: ">> \o PyStr(m) \o <<" ">> \o PyStr(p))
    /\ Contains(Field(out.val, "body").s, PyStr(m) \o <<" ">> \o PyStr(p))
NoConversionCalled == ~InCalls("convert_document") /\ ~InCalls("export_document")
\* C6 as stated: every (method, path) pair that is not a route gets status
\* 404 with the error "Unknown endpoint: <method> <path>", and neither
\* convert_document nor export_document is invoked.
C6_Original ==
    (Returned("handler") /\ ~Raised(http_method(TheEvent))
        /\ NotARoute(http_method(TheEvent).val, path(TheEvent)))
        => (UnknownEndpoint(http_method(TheEvent).val, path(TheEvent)) /\ NoConversionCalled)
\* C6 amended: every (method, path) pair that is not a route gets status 404
\* with the error "Unknown endpoint: <method> <path>" when the event
\* normalisation, which runs before the routing, does not raise, and status
\* 500 when it raises; in both cases neither convert_document nor
\* export_document is invoked.
C6_UnknownEndpoint ==
    (Returned("handler") /\ ~Raised(http_method(TheEvent))
        /\ NotARoute(http_method(TheEvent).val, path(TheEvent)))
        => /\ NoConversionCalled
           /\ IF Raised(parse_event(TheEvent)) THEN Responded(500)
              ELSE UnknownEndpoint(http_method(TheEvent).val, path(TheEvent))
C6_Witness ==
    /\ Returned("handler")
    /\ IsStr(Field(TheEvent, "httpMethod"), <<"POST">>) /\ IsStr(Field(TheEvent, "path"), <<"/", "unknown">>)
    /\ HasKey(TheEvent, "body")
    /\ Responded(404)
    /\ Field(ResponseJson, "error") = Str(<<"Unknown endpoint: ", "POST", " ", "/", "unknown">>)

\* the method of the request is OPTIONS: in httpMethod, or, when that is
\* not set, in requestContext.http.method
MethodIsOptions(ev) ==
    \/ IsStr(Field(ev, "httpMethod"), <<"OPTIONS">>)
    \/ /\ Field(ev, "httpMethod").t \in {"missing", "NoneType"}
       /\ IsStr(Field(Field(Field(ev, "requestContext"), "http"), "method"), <<"OPTIONS">>)
\* C7: when the request method is OPTIONS, handler returns status 200 with
\* the CORS headers, for every path and every body, before the health check,
\* the event normalisation and the routing.
C7_OptionsWins ==
    (Returned("handler") /\ MethodIsOptions(TheEvent))
        => (Responded(200) /\ HasCorsHeaders(out.val) /\ calls = <<>> /\ caught = NoExc)
C7_Witness ==
    /\ Returned("handler")
    /\ ~HasKey(TheEvent, "httpMethod") /\ MethodIsOptions(TheEvent)
    /\ IsStr(Field(TheEvent, "path"), <<"/", "unknown">>) /\ HasKey(TheEvent, "body")
    /\ Responded(200) /\ HasCorsHeaders(out.val)

RECURSIVE LinkTargets(_)
\* the targets of the image links of a markdown text
LinkTargets(md) ==
    IF md = <<>> THEN {}
    ELSE IF Head(md) = "![Image]("
         THEN LET rest == Tail(md)
                  closing == {j \in 1..Len(rest) : rest[j] = ")"}
              IN  IF closing = {} THEN {}
                  ELSE LET j == CHOOSE c \in closing : \A d \in closing : c <= d
                       IN  {SubSeq(rest, 1, j - 1)} \cup LinkTargets(SubSeq(rest, j + 1, Len(rest)))
         ELSE LinkTargets(Tail(md))
\* C8: after create_zip_with_images, every image link of the markdown entry
\* names an entry of the archive, for any number and layout of image files.
C8_RoundTrip ==
    (Returned("create_zip_with_images") /\ out.exc = NoExc)
        => \A l \in LinkTargets(zip[1].data) : \E k \in 2..Len(zip) : zip[k].name = l

\* the rendered files that are images, by extension in either case
RenderedImages == {i \in env.files : FileUniverse[i][Len(FileUniverse[i])]
                                        \in {".png", ".PNG", ".jpg", ".JPG", ".jpeg", ".gif", ".bmp"}}
\* C9: for a result that renders N image files, create_zip_with_images
\* returns image count N and an archive of exactly N+1 entries: the markdown
\* entry <base_name>.md and one entry per image under its bare filename.
C9_EntryCount ==
    (Returned("create_zip_with_images") /\ out.exc = NoExc)
        => /\ out.val.image_count = Cardinality(RenderedImages)
           /\ Len(zip) = Cardinality(RenderedImages) + 1
           /\ zip[1].name = arg[2].s \o <<".md">>
           /\ \A i \in RenderedImages :
                 /\ Cardinality({k \in 2..Len(zip) : zip[k].data = <<"image ">> \o FileUniverse[i]}) = 1
                 /\ \A k \in 2..Len(zip) :
                       zip[k].data = <<"image ">> \o FileUniverse[i] =>
                           /\ zip[k].name \o <<>> = PathName(FileUniverse[i])
                           /\ \A c \in 1..Len(zip[k].name) : zip[k].name[c] # "/"
C9_Witness ==
    /\ Returned("create_zip_with_images") /\ out.exc = NoExc
    /\ env.files = {2, 3} /\ out.val.image_count = 2 /\ Len(zip) = 3


\* the text parse_event gives to the JSON decoder, when it gets that far
DecodedBody(ev) ==
    IF HasKey(ev, "isBase64Encoded") /\ Truthy(Field(ev, "isBase64Encoded"))
    THEN IF Raised(B64Decode(Field(ev, "body"))) THEN B64Decode(Field(ev, "body"))
         ELSE Utf8Decode(B64Decode(Field(ev, "body")).val)
    ELSE Ret(Field(ev, "body"))
\* C10: the output of parse_event is always a mapping; a null body gives the
\* empty mapping, and a string body that is not JSON (after the base64
\* decoding, when flagged) gives the empty mapping and not an error.
C10_OutputIsMapping ==
    Returned("parse_event") =>
        /\ out.exc = NoExc => out.val.t = "dict"
        /\ Field(TheEvent, "body").t = "NoneType" => out = Ret(Dict(<<>>))
        /\ (Field(TheEvent, "body").t = "str" /\ ~Raised(DecodedBody(TheEvent))
               /\ Raised(JsonLoads(DecodedBody(TheEvent).val.s))) => out = Ret(Dict(<<>>))

====
